---------------------------- MODULE Spec2Model ----------------------------
(***************************************************************************)
(* The listener registry of packages/ember-metal/lib/events.js.            *)
(*                                                                         *)
(* The JavaScript heap is modelled explicitly, because the registry's      *)
(* behaviour rests on object identity:                                     *)
(*   - each owner's meta object (own, inherited from the parent owner, or  *)
(*     created with the parent's meta as prototype),                       *)
(*   - the listener directories (meta.listeners), which form prototype     *)
(*     chains built by o_create,                                           *)
(*   - the action sets ({__ember_source__, targets, methods}), whose       *)
(*     two parallel arrays are mutated in place.                           *)
(* Object references are indices into heap.dirs and heap.acts; 0 is "no    *)
(* object".  A directory slot holds -1 (no own property), 0 (null) or the  *)
(* index of an action set.                                                 *)
(***************************************************************************)
EXTENDS Integers, Sequences, FiniteSets, TLC

VARIABLES heap, stack, last, ncalls, ndisp

vars == <<heap, stack, last, ncalls, ndisp>>

----------------------------------------------------------------------------
(* Bounds of the model *)

\* top-level addListener/removeListener/hasListeners calls per behaviour
MaxCalls == 3

\* top-level sendEvent/suspendListener calls per behaviour
MaxDispatch == 1

\* listenersUnion/listenersDiff calls per behaviour
MaxMerge == 2

\* calls a listener or a suspended body makes before it returns
MaxReent == 1

----------------------------------------------------------------------------
(* Values *)

\* owner B is created from owner A (its meta is inherited until B writes)
Owners == {"A", "B"}

Parent(o) == IF o = "B" THEN "A" ELSE "none"

Events == {"e", "x"}

\* "null" is the absent target (resolved to the sender at dispatch)
Targets == {"null", "t1"}

Methods == {"m1", "m2"}

\* what a callback passed to suspendListener may return
Results == {"r1", "r2"}

----------------------------------------------------------------------------
(* Array helpers: Array.prototype.indexOf, splice(i, 1), reversal *)

\* 0 stands for JavaScript's -1
IndexOf(s, x) ==
  IF \E i \in 1..Len(s) : s[i] = x
  THEN CHOOSE i \in 1..Len(s) : s[i] = x /\ \A k \in 1..(i-1) : s[k] # x
  ELSE 0

RemoveAt(s, i) == [k \in 1..(Len(s)-1) |-> IF k < i THEN s[k] ELSE s[k+1]]

\* targets.splice(targetIndex, 1) with targetIndex possibly -1 (here 0):
\* a negative start counts from the end, so splice(-1, 1) drops the last
\* element of a non-empty array
SpliceOne(s, i) ==
  IF i # 0 THEN RemoveAt(s, i)
  ELSE IF Len(s) = 0 THEN s ELSE SubSeq(s, 1, Len(s)-1)

Reverse(s) == [k \in 1..Len(s) |-> s[Len(s)+1-k]]

RECURSIVE Flatten(_)
Flatten(ss) == IF ss = <<>> THEN <<>> ELSE Head(ss) \o Flatten(Tail(ss))

Count(s, x) == Cardinality({i \in 1..Len(s) : s[i] = x})

Range(s) == {s[i] : i \in 1..Len(s)}

----------------------------------------------------------------------------
(* Ember.meta, o_create and Ember.metaPath (ember-metal/utils) *)

\* acc is the action set a caller of listenersUnion/listenersDiff holds and
\* passes as `actions`: an object of its own, in no directory ({} at first,
\* which lines 115-116 and 147-148 give two empty arrays)
EmptyHeap ==
  [meta |-> [o \in Owners |-> [own |-> FALSE, inh |-> FALSE, lis |-> 0]],
   dirs |-> <<>>,
   acts |-> <<>>,
   acc  |-> [targets |-> <<>>, methods |-> <<>>]]

\* meta.listeners read on o's own meta object: the own property, or the
\* property inherited from the parent's meta when the meta was o_create'd
LisOfMeta(h, o) ==
  IF h.meta[o].lis # 0 THEN h.meta[o].lis
  ELSE IF h.meta[o].inh THEN h.meta[Parent(o)].lis
  ELSE 0

\* Ember.meta(obj, false).listeners: no meta is created; an owner without
\* its own meta reads its parent's, or EMPTY_META
ReadListeners(h, o) ==
  IF h.meta[o].own THEN LisOfMeta(h, o)
  ELSE IF Parent(o) # "none" /\ h.meta[Parent(o)].own
       THEN LisOfMeta(h, Parent(o))
  ELSE 0

\* Ember.meta(obj, true): o gets a meta of its own, o_create'd from the
\* inherited one when there is one
MetaWrite(h, o) ==
  IF h.meta[o].own THEN h
  ELSE [h EXCEPT !.meta[o] =
          [own |-> TRUE,
           inh |-> (Parent(o) # "none" /\ h.meta[Parent(o)].own),
           lis |-> 0]]

\* property lookup listeners[eventName] along the prototype chain
RECURSIVE DirGet(_, _, _)
DirGet(h, d, e) ==
  IF d = 0 THEN -1
  ELSE IF h.dirs[d].ev[e] # -1 THEN h.dirs[d].ev[e]
  ELSE DirGet(h, h.dirs[d].proto, e)

\* property lookup listeners.__ember_source__ along the prototype chain
RECURSIVE DirSrc(_, _)
DirSrc(h, d) ==
  IF d = 0 THEN "none"
  ELSE IF h.dirs[d].src # "none" THEN h.dirs[d].src
  ELSE DirSrc(h, h.dirs[d].proto)

NoSlots == [x \in Events |-> -1]

\* metaPath(obj, ['listeners'], true) on the meta h1 already made writable:
\* the directory, created or o_create'd with __ember_source__ = obj when it
\* is missing or another's
metaPathStep(h1, o) ==
  LET v  == LisOfMeta(h1, o)
      nd == Len(h1.dirs) + 1
  IN  IF v = 0
      THEN [h |-> [h1 EXCEPT !.dirs = Append(@, [proto |-> 0, src |-> o, ev |-> NoSlots]),
                             !.meta[o].lis = nd],
            d |-> nd]
      ELSE IF DirSrc(h1, v) # o
      THEN [h |-> [h1 EXCEPT !.dirs = Append(@, [proto |-> v, src |-> o, ev |-> NoSlots]),
                             !.meta[o].lis = nd],
            d |-> nd]
      ELSE [h |-> h1, d |-> v]

metaPathListeners(h, o) == metaPathStep(MetaWrite(h, o), o)

----------------------------------------------------------------------------
(* events.js: the directory manager *)

\* actionsFor, line 46: meta.listeners = meta.listeners || {}
\* (the assignment makes the directory an own property of o's meta, also
\* when the directory read is the one inherited from the parent's meta)
ensureListeners(h1, o) ==
  IF LisOfMeta(h1, o) = 0
  THEN [h1 EXCEPT !.dirs = Append(@, [proto |-> 0, src |-> "none", ev |-> NoSlots]),
                  !.meta[o].lis = Len(h1.dirs) + 1]
  ELSE [h1 EXCEPT !.meta[o].lis = LisOfMeta(h1, o)]

\* actionsFor, line 47: actions = meta.listeners[eventName] =
\*   meta.listeners[eventName] || {__ember_source__: obj}
\* (a new action set gets its empty arrays at lines 62-63)
ensureActions(h2, o, e) ==
  LET L   == h2.meta[o].lis
      cur == DirGet(h2, L, e)
  IN  IF cur > 0
      THEN [h2 EXCEPT !.dirs[L].ev[e] = cur]
      ELSE [h2 EXCEPT !.acts = Append(@, [src |-> o, targets |-> <<>>, methods |-> <<>>]),
                      !.dirs[L].ev[e] = Len(h2.acts) + 1]

\* actionsFor, lines 48-65: an action set whose __ember_source__ is not obj
\* is copied into a directory o_create'd from the current one; the copy
\* carries no __ember_source__
forkActions(h3, o, e) ==
  LET L   == h3.meta[o].lis
      a   == h3.dirs[L].ev[e]
      nd  == Len(h3.dirs) + 1
      na  == Len(h3.acts) + 1
  IN  IF h3.acts[a].src # o
      THEN [h |-> [h3 EXCEPT !.dirs = Append(@, [proto |-> L, src |-> o,
                                                 ev |-> [x \in Events |-> IF x = e THEN na ELSE -1]]),
                             !.acts = Append(@, [src |-> "none",
                                                 targets |-> h3.acts[a].targets,
                                                 methods |-> h3.acts[a].methods]),
                             !.meta[o].lis = nd],
            a |-> na]
      ELSE [h |-> h3, a |-> a]

\* actionsFor(obj, eventName, target, true): the action set (a), and the
\* heap (h) after the writes actionsFor makes on the way
actionsFor(h, o, e) ==
  forkActions(ensureActions(ensureListeners(MetaWrite(h, o), o), o, e), o, e)

\* targetSetFor(obj, eventName): the action set read without writing, 0 for false
targetSetFor(h, o, e) ==
  LET L == ReadListeners(h, o)
  IN  IF L = 0 THEN 0
      ELSE IF DirGet(h, L, e) > 0 THEN DirGet(h, L, e) ELSE 0

\* iterateSet(actions, callback) for a callback that changes nothing and
\* never returns true: the actions visited, in the order visited.  Rows are
\* taken by the index of `targets`; a row's methods are visited backwards.
iterateSet(h, a) ==
  IF a = 0 THEN <<>>
  ELSE Flatten([i \in 1..Len(h.acts[a].targets) |->
                  [j \in 1..Len(h.acts[a].methods[i]) |->
                     <<h.acts[a].targets[i], Reverse(h.acts[a].methods[i])[j]>>]])

----------------------------------------------------------------------------
(* events.js: the public operations, as functions of the heap *)

\* addListener, lines 180-191, on the action set r.a that actionsFor returned
addAction(r, t, m) ==
  LET idx == IndexOf(r.h.acts[r.a].targets, t)
  IN  IF idx # 0
      THEN IF IndexOf(r.h.acts[r.a].methods[idx], m) = 0
           THEN [r.h EXCEPT !.acts[r.a].methods[idx] = Append(@, m)]
           ELSE r.h
      ELSE [r.h EXCEPT !.acts[r.a].targets = Append(@, t),
                       !.acts[r.a].methods = Append(@, <<m>>)]

addListener(h, o, e, t, m) == addAction(actionsFor(h, o, e), t, m)

\* _removeListener, lines 220-225, on the action set r.a that actionsFor
\* returned: the emptied (or missing) row is spliced out of targets only
removeAction(r, t, m) ==
  LET idx  == IndexOf(r.h.acts[r.a].targets, t)
      \* actions.methods[targetIndex] || []
      row  == IF idx # 0 THEN r.h.acts[r.a].methods[idx] ELSE <<>>
      mi   == IndexOf(row, m)
      row2 == IF mi # 0 THEN RemoveAt(row, mi) ELSE row
  IN  [r.h EXCEPT !.acts[r.a].methods =
                     IF idx # 0 THEN [@ EXCEPT ![idx] = row2] ELSE @,
                  !.acts[r.a].targets =
                     IF Len(row2) = 0 THEN SpliceOne(@, idx) ELSE @]

\* _removeListener(target, method), the inner function of removeListener
removeOne(h, o, e, t, m) == removeAction(actionsFor(h, o, e), t, m)

\* removeListener(obj, eventName, target, method) with a method given
removeListener(h, o, e, t, m) == removeOne(h, o, e, t, m)

\* hasListeners, lines 388-392: nothing was found, the slot is set to null
clearSlot(r, e) == [h |-> [r.h EXCEPT !.dirs[r.d].ev[e] = 0], res |-> FALSE]

\* hasListeners(obj, eventName): the result and the heap afterwards
hasListeners(h, o, e) ==
  IF Len(iterateSet(h, targetSetFor(h, o, e))) > 0
  THEN [h |-> h, res |-> TRUE]
  ELSE clearSlot(metaPathListeners(h, o), e)

\* listenersFor(obj, eventName)
listenersFor(h, o, e) == iterateSet(h, targetSetFor(h, o, e))

\* watchedEvents(obj), as a set: for..in walks the prototype chain
watchedEvents(h, o) ==
  LET L == ReadListeners(h, o)
  IN  {e \in Events : L # 0 /\ DirGet(h, L, e) > 0}

\* the (target, method) pairs registered on (o, e)
Pairs(h, o, e) == Range(iterateSet(h, targetSetFor(h, o, e)))

----------------------------------------------------------------------------
(* The state machine *)

\* `last` is history: the top-level call that returned last, the heap it
\* started from, its result, the invocations it made (inv) and the calls
\* its listeners or its body made (ops); of a sendEvent, whether it came
\* right after a suspendListener of the registered pair (t, m) (susp), and
\* whether the owner had a sendEvent method of its own (hook)
NoCall == [op |-> "none", o |-> "A", e |-> "e", t |-> "null", m |-> "m1",
           pre |-> EmptyHeap, res |-> "none", inv |-> <<>>, ops |-> <<>>, reg |-> {},
           susp |-> FALSE, hook |-> FALSE, rows |-> <<>>]

CallRec(op, o, e, t, m, pre, res) ==
  [op |-> op, o |-> o, e |-> e, t |-> t, m |-> m, pre |-> pre, res |-> res,
   inv |-> <<>>, ops |-> <<>>, reg |-> {}, susp |-> FALSE, hook |-> FALSE, rows |-> <<>>]

\* a stack frame: a sendEvent in its iteration (k = "send"), a listener
\* being invoked (k = "lis"), or a suspendListener whose callback runs
\* (k = "sus"), or a suspendListeners whose callback runs (k = "susN", with
\* e the event names, arrs its targetMethodArrays and rem its
\* removedMethods).  Of a send frame, inv, ops and reg are history: the
\* invocations made, the calls the listeners made, and the pairs that have
\* been registered from the start of the dispatch on; rows holds, for each
\* invocation, the index of the row the method was read from; hook tells whether
\* the owner has a sendEvent method of its own.
Frame(k, o, e) ==
  [k |-> k, o |-> o, e |-> e, t |-> "null", m |-> "m1", a |-> 0, i |-> 0, l |-> 0,
   j |-> 0, tgt |-> "null", inv |-> <<>>, ops |-> <<>>, n |-> 0, removed |-> FALSE,
   reg |-> {}, pre |-> EmptyHeap, hook |-> FALSE, arrs |-> <<>>, rem |-> <<>>,
   rows |-> <<>>]

Top == stack[Len(stack)]

Pop == SubSeq(stack, 1, Len(stack) - 1)

Init ==
  /\ heap = EmptyHeap
  /\ stack = <<>>
  /\ last = NoCall
  /\ ncalls = 0
  /\ ndisp = 0

AtTop == stack = <<>> /\ ncalls < MaxCalls

DoAddListener(o, e, t, m) ==
  /\ AtTop
  /\ heap' = addListener(heap, o, e, t, m)
  /\ last' = CallRec("add", o, e, t, m, heap, "none")
  /\ ncalls' = ncalls + 1
  /\ UNCHANGED <<stack, ndisp>>

DoRemoveListener(o, e, t, m) ==
  /\ AtTop
  /\ heap' = removeListener(heap, o, e, t, m)
  /\ last' = CallRec("remove", o, e, t, m, heap, "none")
  /\ ncalls' = ncalls + 1
  /\ UNCHANGED <<stack, ndisp>>

DoHasListeners(o, e) ==
  /\ AtTop
  /\ heap' = hasListeners(heap, o, e).h
  /\ last' = CallRec("has", o, e, "null", "m1", heap,
                     IF hasListeners(heap, o, e).res THEN "true" ELSE "false")
  /\ ncalls' = ncalls + 1
  /\ UNCHANGED <<stack, ndisp>>

\* addListener and removeListener at top level, with no history kept
Register(o, e, t, m) ==
  /\ AtTop
  /\ heap' = addListener(heap, o, e, t, m)
  /\ last' = NoCall
  /\ ncalls' = ncalls + 1
  /\ UNCHANGED <<stack, ndisp>>

Unregister(o, e, t, m) ==
  /\ AtTop
  /\ heap' = removeListener(heap, o, e, t, m)
  /\ last' = NoCall
  /\ ncalls' = ncalls + 1
  /\ UNCHANGED <<stack, ndisp>>

----------------------------------------------------------------------------
(* sendEvent: iterateSet with a callback that runs listeners *)

\* the frame of sendEvent(obj, eventName) about to start iterateSet: the
\* action set is read once, and l = actions.targets.length is fixed
SendFrame(h, o, e) ==
  LET a == targetSetFor(h, o, e)
  IN  [Frame("send", o, e) EXCEPT !.a = a,
                                  !.l = IF a = 0 THEN 0 ELSE Len(h.acts[a].targets),
                                  !.reg = Range(iterateSet(h, a)),
                                  !.pre = h]

\* iterateSet with its inner loop running forwards (j counts up; a row is
\* entered at j = 1)
RECURSIVE NextVisitForwards(_, _, _, _, _, _)
NextVisitForwards(h, a, i, j, l, tgt) ==
  IF i >= 1 /\ j >= 1 /\ j <= Len(h.acts[a].methods[i])
  THEN [done |-> FALSE, i |-> i, j |-> j, nj |-> j + 1, tgt |-> tgt]
  ELSE IF i + 1 <= l
  THEN NextVisitForwards(h, a, i + 1, 1, l,
                         IF i + 1 <= Len(h.acts[a].targets)
                         THEN h.acts[a].targets[i + 1] ELSE "undef")
  ELSE [done |-> TRUE, i |-> i, j |-> 0, nj |-> 0, tgt |-> tgt]

\* the loops of iterateSet from row i, index j on (j counts down; j = 0
\* ends the row): the next index that holds a method (and the index nj the
\* loop goes on from after the callback), or done.  A row's target is read
\* when the row is entered, the methods array is read live.
RECURSIVE NextVisit(_, _, _, _, _, _)
NextVisit(h, a, i, j, l, tgt) ==
  IF j >= 1
  THEN IF j <= Len(h.acts[a].methods[i])
       THEN [done |-> FALSE, i |-> i, j |-> j, nj |-> j - 1, tgt |-> tgt]
       ELSE NextVisit(h, a, i, j - 1, l, tgt)
  ELSE IF i + 1 <= l
  THEN NextVisit(h, a, i + 1, Len(h.acts[a].methods[i + 1]), l,
                 IF i + 1 <= Len(h.acts[a].targets)
                 THEN h.acts[a].targets[i + 1] ELSE "undef")
  ELSE [done |-> TRUE, i |-> i, j |-> 0, nj |-> 0, tgt |-> tgt]

\* invokeAction: the receiver of the call
Receiver(o, tgt) == IF tgt \in {"null", "undef"} THEN o ELSE tgt

\* history: the call before was a suspendListener on (o, e) of a pair that
\* was registered, and it ran its callback
AfterSuspend(o, e) ==
  /\ last.op = "suspend"
  /\ last.o = o
  /\ last.e = e
  /\ last.res # "TypeError"
  /\ <<last.t, last.m>> \in Pairs(last.pre, o, e)

\* sendEvent(obj, eventName) is called at top level
SendEventCall(o, e) ==
  /\ stack = <<>>
  /\ stack' = <<IF AfterSuspend(o, e)
                 THEN [SendFrame(heap, o, e) EXCEPT !.t = last.t, !.m = last.m, !.removed = TRUE]
                 ELSE SendFrame(heap, o, e)>>
  /\ last' = NoCall
  /\ UNCHANGED <<heap, ncalls>>

DoSendEvent(o, e) ==
  /\ ndisp < MaxDispatch
  /\ SendEventCall(o, e)
  /\ ndisp' = ndisp + 1

\* the sendEvent that follows a suspendListener on the same event
DoSendAfterSuspend(o, e) ==
  /\ AfterSuspend(o, e)
  /\ SendEventCall(o, e)
  /\ UNCHANGED ndisp

\* sendEvent runs to its next listener invocation, or returns true
SendStep ==
  /\ stack # <<>>
  /\ Top.k = "send"
  /\ LET f == Top
         v == NextVisit(heap, f.a, f.i, f.j, f.l, f.tgt)
     IN  IF ~v.done
         THEN LET mth == heap.acts[f.a].methods[v.i][v.j]
                  f2  == [f EXCEPT !.i = v.i, !.j = v.nj, !.tgt = v.tgt,
                                   !.inv = Append(@, <<v.tgt, mth>>),
                                   !.rows = Append(@, v.i)]
                  g   == [Frame("lis", f.o, f.e) EXCEPT !.t = v.tgt, !.m = mth]
              IN  /\ stack' = Pop \o <<f2, g>>
                  /\ UNCHANGED last
         ELSE IF Len(stack) = 1
         THEN /\ stack' = <<>>
              /\ last' = [CallRec("send", f.o, f.e, f.t, f.m, f.pre, "true")
                            EXCEPT !.inv = f.inv, !.ops = f.ops, !.reg = f.reg,
                                   !.susp = f.removed, !.hook = f.hook,
                                   !.rows = f.rows]
         ELSE \* sendEvent was called by the callback of suspendListener
              /\ stack' = SubSeq(stack, 1, Len(stack) - 2) \o
                            <<[stack[Len(stack) - 1] EXCEPT !.inv = @ \o f.inv]>>
              /\ UNCHANGED last
  /\ UNCHANGED <<heap, ncalls, ndisp>>

InListener == Len(stack) >= 2 /\ Top.k = "lis" /\ Top.n < MaxReent

\* the listener being invoked calls op on the event being sent
ReCall(op, t, m, h2) ==
  LET g == Top
      f == stack[Len(stack) - 1]
  IN  /\ heap' = h2
      /\ stack' = SubSeq(stack, 1, Len(stack) - 2) \o
                    <<[f EXCEPT !.ops = Append(@, <<op, t, m, g.t, g.m>>),
                                !.reg = @ \cap Pairs(h2, f.o, f.e)],
                      [g EXCEPT !.n = @ + 1]>>
      /\ UNCHANGED <<last, ncalls, ndisp>>

ListenerAdds(t, m) ==
  /\ InListener
  /\ ReCall("add", t, m, addListener(heap, Top.o, Top.e, t, m))

ListenerRemoves(t, m) ==
  /\ InListener
  /\ ReCall("remove", t, m, removeListener(heap, Top.o, Top.e, t, m))

\* the listener removes itself, naming the target it was registered with
ListenerRemovesItself ==
  /\ InListener
  /\ Top.t # "undef"
  /\ ReCall("remove", Top.t, Top.m, removeListener(heap, Top.o, Top.e, Top.t, Top.m))

ListenerReturns ==
  /\ stack # <<>>
  /\ Top.k = "lis"
  /\ stack' = Pop
  /\ UNCHANGED <<heap, last, ncalls, ndisp>>

----------------------------------------------------------------------------
(* suspendListener *)

\* suspendListener, lines 265-273, on the action set r.a that actionsFor
\* returned: idx is the row of the target (0: none, and reading
\* targetMethods.indexOf raises a TypeError), removed tells whether the
\* method was spliced out of the row
suspendAction(r, t, m) ==
  LET idx == IndexOf(r.h.acts[r.a].targets, t)
      mi  == IF idx = 0 THEN 0 ELSE IndexOf(r.h.acts[r.a].methods[idx], m)
  IN  [h |-> IF mi # 0
             THEN [r.h EXCEPT !.acts[r.a].methods[idx] = RemoveAt(@, mi)]
             ELSE r.h,
       a |-> r.a, idx |-> idx, removed |-> mi # 0]

\* suspendListener without its finally block: nothing is put back
restoreNothing(h, f) == h

\* suspendListener, line 278 (finally): the removed method is pushed onto
\* the method array it was taken from
restoreAction(h, f) ==
  IF f.removed
  THEN [h EXCEPT !.acts[f.a].methods[f.i] = Append(@, f.m)]
  ELSE h

\* suspendListener, line 276: the value of the call is the callback's
suspendResult(r) == r

DoSuspendListener(o, e, t, m) ==
  /\ stack = <<>>
  /\ ndisp < MaxDispatch
  /\ LET s == suspendAction(actionsFor(heap, o, e), t, m)
     IN  /\ heap' = s.h
         /\ IF s.idx = 0
            THEN /\ stack' = <<>>
                 /\ last' = CallRec("suspend", o, e, t, m, heap, "TypeError")
            ELSE /\ stack' = <<[Frame("sus", o, e) EXCEPT !.t = t, !.m = m, !.a = s.a,
                                                        !.i = s.idx, !.removed = s.removed,
                                                        !.pre = heap]>>
                 /\ last' = NoCall
  /\ ndisp' = ndisp + 1
  /\ UNCHANGED ncalls

InBody == stack # <<>> /\ Top.k = "sus" /\ Top.n < MaxReent

\* the callback calls op on the suspended event
BodyCall(op, t, m, h2) ==
  /\ heap' = h2
  /\ stack' = Pop \o <<[Top EXCEPT !.ops = Append(@, <<op, t, m, "body", "body">>),
                                   !.n = @ + 1]>>
  /\ UNCHANGED <<last, ncalls, ndisp>>

BodyAdds(t, m) ==
  /\ InBody
  /\ BodyCall("add", t, m, addListener(heap, Top.o, Top.e, t, m))

BodyRemoves(t, m) ==
  /\ InBody
  /\ BodyCall("remove", t, m, removeListener(heap, Top.o, Top.e, t, m))

BodyHasListeners ==
  /\ InBody
  /\ BodyCall("has", "null", "m1", hasListeners(heap, Top.o, Top.e).h)

BodySends ==
  /\ InBody
  /\ heap' = heap
  /\ stack' = Pop \o <<[Top EXCEPT !.ops = Append(@, <<"send", "null", "m1", "body", "body">>),
                                   !.n = @ + 1],
                       SendFrame(heap, Top.o, Top.e)>>
  /\ UNCHANGED <<last, ncalls, ndisp>>

\* the callback is over (it returned res, or res = "raised"): the finally
\* block runs and suspendListener returns or raises in its turn
BodyEnds(res) ==
  /\ stack # <<>>
  /\ Top.k = "sus"
  /\ heap' = restoreAction(heap, Top)
  /\ stack' = Pop
  /\ last' = [CallRec("suspend", Top.o, Top.e, Top.t, Top.m, Top.pre, suspendResult(res))
                EXCEPT !.inv = Top.inv,
                       !.ops = Append(Top.ops, <<"end", "null", "m1", "body", res>>)]
  /\ UNCHANGED <<ncalls, ndisp>>

BodyReturns(r) == BodyEnds(r)

BodyRaises == BodyEnds("raised")

----------------------------------------------------------------------------
(* Specifications *)

\* the registry operations, on both owners
Next ==
  \/ \E o \in Owners, e \in Events, t \in Targets, m \in Methods : DoAddListener(o, e, t, m)
  \/ \E o \in Owners, e \in Events, t \in Targets, m \in Methods : DoRemoveListener(o, e, t, m)
  \/ \E o \in Owners, e \in Events : DoHasListeners(o, e)

Spec == Init /\ [][Next]_vars

\* In the specifications below the listeners are registered first (ndisp = 0)
\* and the dispatching calls follow.

\* dispatch with listeners that add or remove listeners of the event
NextDispatch ==
  \/ \E o \in Owners, t \in Targets, m \in Methods : ndisp = 0 /\ Register(o, "e", t, m)
  \/ \E o \in Owners : DoSendEvent(o, "e")
  \/ SendStep
  \/ \E t \in Targets, m \in Methods : ListenerAdds(t, m)
  \/ \E t \in Targets, m \in Methods : ListenerRemoves(t, m)
  \/ ListenerReturns

SpecDispatch == Init /\ [][NextDispatch]_vars

\* L1, L2, L3 in the order of their registration
Listeners3 == <<"m1", "m2", "m3">>

\* dispatch of three listeners registered in order, each of which may
\* remove itself when it is invoked
NextSelfRemove ==
  \/ \E o \in Owners, t \in Targets :
       ndisp = 0 /\ ncalls < Len(Listeners3) /\ DoAddListener(o, "e", t, Listeners3[ncalls + 1])
  \/ \E o \in Owners : DoSendEvent(o, "e")
  \/ SendStep
  \/ ListenerRemovesItself
  \/ ListenerReturns

SpecSelfRemove == Init /\ [][NextSelfRemove]_vars

\* suspendListener with callbacks that call hasListeners, addListener,
\* removeListener or sendEvent on the suspended event, return or raise
NextSuspend ==
  \/ \E o \in Owners, t \in Targets, m \in Methods : ndisp = 0 /\ Register(o, "e", t, m)
  \/ \E o \in Owners, t \in Targets, m \in Methods : ndisp = 0 /\ Unregister(o, "e", t, m)
  \/ \E o \in Owners, t \in Targets, m \in Methods : DoSuspendListener(o, "e", t, m)
  \/ \E t \in Targets, m \in Methods : BodyAdds(t, m)
  \/ \E t \in Targets, m \in Methods : BodyRemoves(t, m)
  \/ BodyHasListeners
  \/ BodySends
  \/ SendStep
  \/ ListenerReturns
  \/ \E r \in Results : BodyReturns(r)
  \/ BodyRaises

SpecSuspend == Init /\ [][NextSuspend]_vars

\* suspendListener with callbacks that send the suspended event, and a
\* sendEvent after it
NextSuspendSend ==
  \/ \E o \in Owners, t \in Targets, m \in Methods : ndisp = 0 /\ Register(o, "e", t, m)
  \/ \E o \in Owners, t \in Targets, m \in Methods : DoSuspendListener(o, "e", t, m)
  \/ BodySends
  \/ \E r \in Results : BodyReturns(r)
  \/ \E o \in Owners : DoSendAfterSuspend(o, "e")
  \/ SendStep
  \/ ListenerReturns

SpecSuspendSend == Init /\ [][NextSuspendSend]_vars

----------------------------------------------------------------------------
(* removeListener without a method *)

\* removeListener, lines 235-237: iterateSet over the action set read by
\* targetSetFor, from the visit v on, with _removeListener(action.target,
\* action.method) as the callback.  The set is walked while it is changed;
\* _removeListener goes through actionsFor, so on an owner that inherits the
\* set the removals go to a copy.  The target the call was given is not
\* looked at.
RECURSIVE removeVisited(_, _, _, _, _, _)
removeVisited(h, o, e, a, l, v) ==
  IF v.done THEN h
  ELSE removeVisited(removeOne(h, o, e, v.tgt, h.acts[a].methods[v.i][v.j]),
                     o, e, a, l,
                     NextVisit(removeOne(h, o, e, v.tgt, h.acts[a].methods[v.i][v.j]),
                               a, v.i, v.nj, l, v.tgt))

\* removeListener(obj, eventName, target) with the method omitted
removeListenerOfTarget(h, o, e, t) ==
  IF targetSetFor(h, o, e) = 0 \/ Len(h.acts[targetSetFor(h, o, e)].targets) = 0
  THEN h
  ELSE removeVisited(h, o, e, targetSetFor(h, o, e),
                     Len(h.acts[targetSetFor(h, o, e)].targets),
                     NextVisit(h, targetSetFor(h, o, e), 0, 0,
                               Len(h.acts[targetSetFor(h, o, e)].targets), "null"))

DoRemoveListenerOfTarget(o, e, t) ==
  /\ AtTop
  /\ heap' = removeListenerOfTarget(heap, o, e, t)
  /\ last' = CallRec("removeTarget", o, e, t, "m1", heap, "none")
  /\ ncalls' = ncalls + 1
  /\ UNCHANGED <<stack, ndisp>>

\* registrations on one event, and removals with and without a method
NextRemoveTarget ==
  \/ \E o \in Owners, t \in Targets, m \in Methods : DoAddListener(o, "e", t, m)
  \/ \E o \in Owners, t \in Targets, m \in Methods : DoRemoveListener(o, "e", t, m)
  \/ \E o \in Owners, t \in Targets : DoRemoveListenerOfTarget(o, "e", t)

SpecRemoveTarget == Init /\ [][NextRemoveTarget]_vars

----------------------------------------------------------------------------
(* listenersUnion and listenersDiff *)

NoActions == [targets |-> <<>>, methods |-> <<>>]

\* targetSetUnion with a callback that pushes a row for every action
unionStepNewRow(actions, t, m) ==
  [targets |-> Append(actions.targets, t),
   methods |-> Append(actions.methods, <<m>>)]

\* targetSetUnion, lines 119-130: the callback, on the action (t, m)
unionStep(actions, t, m) ==
  IF IndexOf(actions.targets, t) # 0
  THEN IF IndexOf(actions.methods[IndexOf(actions.targets, t)], m) = 0
       THEN [actions EXCEPT !.methods[IndexOf(actions.targets, t)] = Append(@, m)]
       ELSE actions
  ELSE [targets |-> Append(actions.targets, t),
        methods |-> Append(actions.methods, <<m>>)]

RECURSIVE unionAll(_, _)
unionAll(actions, seq) ==
  IF seq = <<>> THEN actions
  ELSE unionAll(unionStep(actions, Head(seq)[1], Head(seq)[2]), Tail(seq))

\* targetSetUnion(obj, eventName, actions): `actions` afterwards.  The
\* callback changes nothing of what iterateSet walks.
targetSetUnion(h, o, e, actions) ==
  unionAll(actions, iterateSet(h, targetSetFor(h, o, e)))

\* addAction(actions, action), lines 134-144: a row is pushed unless the
\* target has a row that lacks the method
addActionTo(actions, t, m) ==
  IF IndexOf(actions.targets, t) # 0
     /\ IndexOf(actions.methods[IndexOf(actions.targets, t)], m) = 0
  THEN [actions EXCEPT !.methods[IndexOf(actions.targets, t)] = Append(@, m)]
  ELSE [targets |-> Append(actions.targets, t),
        methods |-> Append(actions.methods, <<m>>)]

\* targetSetDiff with line 155 left out: the action goes to the result only
diffStepResultOnly(st, t, m) ==
  IF IndexOf(st.dest.targets, t) # 0
     /\ IndexOf(st.dest.methods[IndexOf(st.dest.targets, t)], m) # 0
  THEN st
  ELSE [dest |-> st.dest, diff |-> addActionTo(st.diff, t, m)]

\* targetSetDiff, lines 151-156: the callback, on the action (t, m);
\* st.dest is `actions`, st.diff is diffActions
diffStep(st, t, m) ==
  IF IndexOf(st.dest.targets, t) # 0
     /\ IndexOf(st.dest.methods[IndexOf(st.dest.targets, t)], m) # 0
  THEN st
  ELSE [dest |-> addActionTo(st.dest, t, m), diff |-> addActionTo(st.diff, t, m)]

RECURSIVE diffAll(_, _)
diffAll(st, seq) ==
  IF seq = <<>> THEN st
  ELSE diffAll(diffStep(st, Head(seq)[1], Head(seq)[2]), Tail(seq))

\* targetSetDiff(obj, eventName, actions): `actions` afterwards (dest) and
\* the action set returned (diff)
targetSetDiff(h, o, e, actions) ==
  diffAll([dest |-> actions, diff |-> NoActions], iterateSet(h, targetSetFor(h, o, e)))

\* ndisp counts the merging calls here
DoListenersUnion(o, e) ==
  /\ stack = <<>>
  /\ ndisp < MaxMerge
  /\ heap' = [heap EXCEPT !.acc = targetSetUnion(heap, o, e, heap.acc)]
  /\ last' = CallRec("union", o, e, "null", "m1", heap, "none")
  /\ ndisp' = ndisp + 1
  /\ UNCHANGED <<stack, ncalls>>

DoListenersDiff(o, e) ==
  /\ stack = <<>>
  /\ ndisp < MaxMerge
  /\ heap' = [heap EXCEPT !.acc = targetSetDiff(heap, o, e, heap.acc).dest]
  /\ last' = CallRec("diff", o, e, "null", "m1", heap, targetSetDiff(heap, o, e, heap.acc).diff)
  /\ ndisp' = ndisp + 1
  /\ UNCHANGED <<stack, ncalls>>

\* registrations, and merges into the one accumulator
NextMerge ==
  \/ \E o \in Owners, t \in Targets, m \in Methods : Register(o, "e", t, m)
  \/ \E o \in Owners, t \in Targets, m \in Methods : Unregister(o, "e", t, m)
  \/ \E o \in Owners : DoListenersUnion(o, "e")
  \/ \E o \in Owners : DoListenersDiff(o, "e")

SpecMerge == Init /\ [][NextMerge]_vars

----------------------------------------------------------------------------
(* sendEvent on an owner with a sendEvent method of its own *)

\* what the owner's method and the listeners may return
Returned == {"true", "false"}

\* the entry of the invocation log for the owner's own sendEvent method
HookCall == <<"hook", "sendEvent">>

\* sendEvent with a callback that hands the listener's result to iterateSet
callbackReturnsResult(r) == r

\* sendEvent, lines 370-372: the callback given to iterateSet has no return
\* statement (nor has invokeAction), whatever the listener returned
callbackResult(r) == "undefined"

\* sendEvent, lines 364-366: obj.sendEvent is a function and is called
\* first; the action set is not read yet
DoSendEventHooked(o, e) ==
  /\ stack = <<>>
  /\ ndisp < MaxDispatch
  /\ stack' = <<[Frame("send", o, e) EXCEPT !.inv = <<HookCall>>, !.hook = TRUE],
                Frame("hook", o, e)>>
  /\ last' = NoCall
  /\ ndisp' = ndisp + 1
  /\ UNCHANGED <<heap, ncalls>>

\* the owner's method returns r, which line 365 drops; line 368 reads the
\* action set and iterateSet starts
HookReturns(r) ==
  /\ stack # <<>>
  /\ Top.k = "hook"
  /\ stack' = <<[SendFrame(heap, Top.o, Top.e)
                   EXCEPT !.inv = stack[1].inv, !.hook = TRUE,
                          !.ops = <<<<"hook", "null", "m1", "hook", r>>>>]>>
  /\ UNCHANGED <<heap, last, ncalls, ndisp>>

\* the listener returns r; iterateSet stops when its callback returns true
\* (lines 92-94)
ListenerReturnsValue(r) ==
  /\ Len(stack) >= 2
  /\ Top.k = "lis"
  /\ stack' = SubSeq(stack, 1, Len(stack) - 2) \o
                <<[stack[Len(stack) - 1]
                     EXCEPT !.ops = Append(@, <<"ret", Top.t, Top.m, Top.t, r>>),
                            !.i = IF callbackResult(r) = "true" THEN stack[Len(stack) - 1].l ELSE @,
                            !.j = IF callbackResult(r) = "true" THEN 0 ELSE @]>>
  /\ UNCHANGED <<heap, last, ncalls, ndisp>>

\* dispatch on owners with and without a sendEvent method, with listeners
\* that return a value
NextHook ==
  \/ \E o \in Owners, t \in Targets, m \in Methods : ndisp = 0 /\ Register(o, "e", t, m)
  \/ \E o \in Owners : DoSendEvent(o, "e")
  \/ \E o \in Owners : DoSendEventHooked(o, "e")
  \/ \E r \in Returned : HookReturns(r)
  \/ SendStep
  \/ \E r \in Returned : ListenerReturnsValue(r)

SpecHook == Init /\ [][NextHook]_vars

----------------------------------------------------------------------------
(* suspendListeners *)

\* the arrays of event names passed to suspendListeners
EventLists == {<<"e">>, <<"e", "x">>, <<"x", "e">>}

\* suspendListeners, lines 313-320, for one event name, on the action set
\* r.a that actionsFor returned.  A method array is named by its action set
\* and its row (rows are never taken out of `methods`).  Without a row of
\* the target, line 315 reads indexOf of undefined and raises (err).
suspendOne(r, st, t, m) ==
  IF IndexOf(r.h.acts[r.a].targets, t) = 0
  THEN [h |-> r.h, arrs |-> st.arrs, rem |-> st.rem, err |-> TRUE]
  ELSE IF IndexOf(r.h.acts[r.a].methods[IndexOf(r.h.acts[r.a].targets, t)], m) # 0
  THEN [h    |-> [r.h EXCEPT !.acts[r.a].methods[IndexOf(r.h.acts[r.a].targets, t)] =
                               RemoveAt(@, IndexOf(@, m))],
        arrs |-> Append(st.arrs, [a |-> r.a, i |-> IndexOf(r.h.acts[r.a].targets, t)]),
        rem  |-> Append(st.rem, m),
        err  |-> FALSE]
  ELSE [h    |-> r.h,
        arrs |-> Append(st.arrs, [a |-> r.a, i |-> IndexOf(r.h.acts[r.a].targets, t)]),
        rem  |-> st.rem,
        err  |-> FALSE]

\* suspendListeners, lines 310-321: the loop over the event names
RECURSIVE suspendAll(_, _, _, _, _)
suspendAll(st, o, evs, t, m) ==
  IF evs = <<>> \/ st.err THEN st
  ELSE suspendAll(suspendOne(actionsFor(st.h, o, Head(evs)), st, t, m), o, Tail(evs), t, m)

\* suspendListeners, lines 326-328 (finally): removedMethods[i] is pushed
\* onto targetMethodArrays[i], from index i on
RECURSIVE restoreFrom(_, _, _, _)
restoreFrom(h, arrs, rem, i) ==
  IF i > Len(rem) THEN h
  ELSE restoreFrom([h EXCEPT !.acts[arrs[i].a].methods[arrs[i].i] = Append(@, rem[i])],
                   arrs, rem, i + 1)

DoSuspendListeners(o, evs, t, m) ==
  /\ stack = <<>>
  /\ ndisp < MaxDispatch
  /\ heap' = suspendAll([h |-> heap, arrs |-> <<>>, rem |-> <<>>, err |-> FALSE], o, evs, t, m).h
  /\ IF suspendAll([h |-> heap, arrs |-> <<>>, rem |-> <<>>, err |-> FALSE], o, evs, t, m).err
     THEN /\ stack' = <<>>
          /\ last' = CallRec("suspendMany", o, evs, t, m, heap, "TypeError")
     ELSE /\ stack' = <<[Frame("susN", o, evs)
                           EXCEPT !.t = t, !.m = m, !.pre = heap,
                                  !.arrs = suspendAll([h |-> heap, arrs |-> <<>>, rem |-> <<>>,
                                                       err |-> FALSE], o, evs, t, m).arrs,
                                  !.rem = suspendAll([h |-> heap, arrs |-> <<>>, rem |-> <<>>,
                                                      err |-> FALSE], o, evs, t, m).rem]>>
          /\ last' = NoCall
  /\ ndisp' = ndisp + 1
  /\ UNCHANGED ncalls

\* the callback of suspendListeners is over (it returned res, or
\* res = "raised"): the finally block runs
ManyBodyEnds(res) ==
  /\ stack # <<>>
  /\ Top.k = "susN"
  /\ heap' = restoreFrom(heap, Top.arrs, Top.rem, 1)
  /\ stack' = Pop
  /\ last' = CallRec("suspendMany", Top.o, Top.e, Top.t, Top.m, Top.pre, res)
  /\ UNCHANGED <<ncalls, ndisp>>

ManyBodyReturns(r) == ManyBodyEnds(r)

ManyBodyRaises == ManyBodyEnds("raised")

\* registrations on both events, then suspendListeners with a callback
\* that calls nothing
NextSuspendMany ==
  \/ \E o \in Owners, e \in Events, t \in Targets, m \in Methods : ndisp = 0 /\ Register(o, e, t, m)
  \/ \E o \in Owners, evs \in EventLists, t \in Targets, m \in Methods :
       DoSuspendListeners(o, evs, t, m)
  \/ \E r \in Results : ManyBodyReturns(r)
  \/ ManyBodyRaises

SpecSuspendMany == Init /\ [][NextSuspendMany]_vars

----------------------------------------------------------------------------
(* Claims about the registry operations (specification Spec) *)

Called(op) == last.op = op /\ stack = <<>>

\* C1: removeListener of a registered pair removes that pair and keeps
\* every other pair registered for the event, rows of later targets included.
C1_RemoveKeepsOtherPairs ==
  (Called("remove") /\ <<last.t, last.m>> \in Pairs(last.pre, last.o, last.e))
    => /\ <<last.t, last.m>> \notin Pairs(heap, last.o, last.e)
       /\ \A p \in Pairs(last.pre, last.o, last.e) \ {<<last.t, last.m>>} :
            p \in Pairs(heap, last.o, last.e)

\* C2: removeListener of a pair that is not registered changes
\* listenersFor(owner, e') for no event e'.
C2_RemoveUnregisteredIsNoOp ==
  (Called("remove") /\ <<last.t, last.m>> \notin Pairs(last.pre, last.o, last.e))
    => \A e2 \in Events :
         listenersFor(heap, last.o, e2) = listenersFor(last.pre, last.o, e2)

\* B reads or inherits A's meta, and A has a listener directory
SharedWithA(h) ==
  /\ h.meta["A"].own
  /\ ReadListeners(h, "A") # 0
  /\ (~h.meta["B"].own \/ h.meta["B"].inh)

\* C3: while B's directory comes from A, no addListener or removeListener
\* on B changes hasListeners(A, x) or listenersFor(A, x), for any event x.
C3_CopyOnWriteIsolation ==
  ((Called("add") \/ Called("remove")) /\ last.o = "B" /\ SharedWithA(last.pre))
    => \A x \in Events :
         /\ listenersFor(heap, "A", x) = listenersFor(last.pre, "A", x)
         /\ hasListeners(heap, "A", x).res = hasListeners(last.pre, "A", x).res

\* C8: a second addListener with the arguments of the one that just ran
\* leaves one registered copy of the pair and the length of listenersFor as
\* the first call left it.
C8_AddIsIdempotent ==
  Called("add") =>
    LET h2 == addListener(heap, last.o, last.e, last.t, last.m)
    IN  /\ Count(listenersFor(h2, last.o, last.e), <<last.t, last.m>>) = 1
        /\ Len(listenersFor(h2, last.o, last.e)) = Len(listenersFor(heap, last.o, last.e))

\* C9: after addListener of a pair that was not registered, removeListener
\* with the same arguments gives back the listenersFor and hasListeners of
\* before the add.
C9_AddThenRemoveRestores ==
  (Called("add") /\ <<last.t, last.m>> \notin Pairs(last.pre, last.o, last.e))
    => LET h2 == removeListener(heap, last.o, last.e, last.t, last.m)
       IN  /\ listenersFor(h2, last.o, last.e) = listenersFor(last.pre, last.o, last.e)
           /\ hasListeners(h2, last.o, last.e).res = hasListeners(last.pre, last.o, last.e).res

\* C10: watchedEvents(owner) is the set of events with at least one
\* registered pair.
C10_WatchedEventsAreTheListenedOnes ==
  \A o \in Owners :
    watchedEvents(heap, o) = {e \in Events : Pairs(heap, o, e) # {}}

----------------------------------------------------------------------------
(* Claims about dispatch (specifications SpecDispatch, SpecSelfRemove) *)

NoDuplicates(s) == \A i, k \in 1..Len(s) : i # k => s[i] # s[k]

\* C4: whatever the listeners add or remove during one sendEvent, no
\* listener is invoked twice in it, and a listener that stays registered
\* from the start of the dispatch to its end is invoked.
C4_NoDoubleNoSkip ==
  /\ \A k \in 1..Len(stack) : stack[k].k = "send" => NoDuplicates(stack[k].inv)
  /\ Called("send") => NoDuplicates(last.inv) /\ last.reg \subseteq Range(last.inv)

\* how many of the invocations ran method m
Invoked(inv, m) == Cardinality({i \in 1..Len(inv) : inv[i][2] = m})

\* a dispatch over the three listeners in which one of them removed itself
OneSelfRemoval ==
  /\ Called("send")
  /\ {p[2] : p \in Pairs(last.pre, last.o, last.e)} = Range(Listeners3)
  /\ Len(listenersFor(last.pre, last.o, last.e)) = 3
  /\ Len(last.ops) = 1
  /\ last.ops[1][1] = "remove"
  /\ <<last.ops[1][2], last.ops[1][3]>> = <<last.ops[1][4], last.ops[1][5]>>

----------------------------------------------------------------------------
(* Claims about suspendListener (specifications SpecSuspend, SpecSuspendSend) *)

\* suspendListener was called on a registered pair and is over
SuspendedRegistered ==
  /\ Called("suspend")
  /\ <<last.t, last.m>> \in Pairs(last.pre, last.o, last.e)

\* C6: a pair that is registered when suspendListener is called is
\* registered exactly once when the call returns or raises, whatever the
\* callback did.
C6_SuspendRestores ==
  SuspendedRegistered =>
    Count(listenersFor(heap, last.o, last.e), <<last.t, last.m>>) = 1

\* the sendEvent calls the callback made
BodySendCount == Cardinality({i \in 1..Len(last.ops) : last.ops[i][1] = "send"})

\* C7: a sendEvent issued by the callback of suspendListener does not
\* invoke the suspended pair and invokes every other registered listener;
\* suspendListener returns the callback's result; a sendEvent after it
\* invokes the pair again.
C7_SuspendedDuringBodyOnly ==
  /\ SuspendedRegistered =>
       /\ <<last.t, last.m>> \notin Range(last.inv)
       /\ \A p \in Pairs(last.pre, last.o, last.e) \ {<<last.t, last.m>>} :
            Count(last.inv, p) = BodySendCount
       /\ last.res = last.ops[Len(last.ops)][5]
  /\ (Called("send") /\ last.susp) => Count(last.inv, <<last.t, last.m>>) = 1

\* a sendEvent after a suspendListener whose callback had sent the event
\* to another listener without reaching the suspended one
C7_Witness ==
  /\ Called("send")
  /\ last.susp
  /\ <<last.t, last.m>> \in Range(last.inv)
  /\ Len(last.inv) >= 2

\* a suspendListener whose callback sent the event returned its result
C7_WitnessBody ==
  /\ SuspendedRegistered
  /\ BodySendCount = 1
  /\ Len(last.inv) >= 1
  /\ last.res = "r2"

----------------------------------------------------------------------------
(* Claims about removeListener without a method (specification SpecRemoveTarget) *)

\* C11: removeListener(owner, e, target) without a method leaves no pair of
\* that target registered on e, and keeps every pair of every other target.
C11_RemoveTargetRemovesOnlyThatTarget ==
  Called("removeTarget") =>
    /\ \A p \in Pairs(heap, last.o, last.e) : p[1] # last.t
    /\ \A p \in Pairs(last.pre, last.o, last.e) :
         p[1] # last.t => p \in Pairs(heap, last.o, last.e)

\* the first half of C11 alone: no pair of the target is left
C11_NoPairOfTargetLeft ==
  Called("removeTarget") => \A p \in Pairs(heap, last.o, last.e) : p[1] # last.t

----------------------------------------------------------------------------
(* Claims about listenersUnion and listenersDiff (specification SpecMerge) *)

\* the pairs of an action set, in row order, and as a set
ListOf(actions) ==
  Flatten([i \in 1..Len(actions.targets) |->
             [j \in 1..Len(actions.methods[i]) |-> <<actions.targets[i], actions.methods[i][j]>>]])

PairsOf(actions) == Range(ListOf(actions))

\* unique target rows, no duplicate method in a row, one row per target
WellFormed(actions) ==
  /\ Len(actions.targets) = Len(actions.methods)
  /\ NoDuplicates(actions.targets)
  /\ \A i \in 1..Len(actions.methods) : NoDuplicates(actions.methods[i])

\* C12: listenersDiff returns the pairs registered on the source and absent
\* from dest, each once; dest then holds what it held and those pairs; a
\* second call with the same source and dest returns an empty action set
\* and leaves dest as it is.
C12_DiffReturnsTheMissingPairs ==
  Called("diff") =>
    /\ PairsOf(last.res) = Pairs(last.pre, last.o, last.e) \ PairsOf(last.pre.acc)
    /\ NoDuplicates(ListOf(last.res))
    /\ PairsOf(heap.acc) = PairsOf(last.pre.acc) \cup PairsOf(last.res)
    /\ targetSetDiff(heap, last.o, last.e, heap.acc).diff = NoActions
    /\ targetSetDiff(heap, last.o, last.e, heap.acc).dest = heap.acc

\* dest held one of two registered pairs and the diff returned the other
C12_Witness ==
  /\ Called("diff")
  /\ Cardinality(PairsOf(last.pre.acc)) = 1
  /\ Cardinality(Pairs(last.pre, last.o, last.e)) = 2
  /\ PairsOf(last.pre.acc) \subseteq Pairs(last.pre, last.o, last.e)
  /\ Cardinality(PairsOf(last.res)) = 1
  /\ Cardinality(PairsOf(heap.acc)) = 2

\* C13: after listenersUnion or listenersDiff into a dest with unique
\* target rows and no duplicate method per row, dest holds its previous
\* pairs and the pairs registered on the source, still has unique rows and
\* no duplicate method, and the listeners of every owner are as before.
C13_MergeIsSetUnion ==
  ((Called("union") \/ Called("diff")) /\ WellFormed(last.pre.acc)) =>
    /\ PairsOf(heap.acc) = PairsOf(last.pre.acc) \cup Pairs(last.pre, last.o, last.e)
    /\ WellFormed(heap.acc)
    /\ \A o \in Owners, e \in Events :
         listenersFor(heap, o, e) = listenersFor(last.pre, o, e)

\* a union into a dest that had a row of a target, from a source with
\* another method of that target and a pair of another target
C13_Witness ==
  /\ Called("union")
  /\ Len(last.pre.acc.targets) = 1
  /\ Len(heap.acc.targets) = 2
  /\ \E i \in 1..2 : Len(heap.acc.methods[i]) = 2
  /\ ~(Pairs(last.pre, last.o, last.e) \subseteq PairsOf(last.pre.acc))
  /\ ~(PairsOf(last.pre.acc) \subseteq Pairs(last.pre, last.o, last.e))

----------------------------------------------------------------------------
(* Further claims about the registry operations (specification Spec) *)

\* C14: listenersFor returns the pairs in row order and, within a row, in
\* the order the methods were added: a pair that addListener has just
\* registered comes after every pair that was registered before it.
C14_ListenersForInInsertionOrder ==
  (Called("add") /\ <<last.t, last.m>> \notin Pairs(last.pre, last.o, last.e)) =>
    \A p \in Pairs(last.pre, last.o, last.e) \cap Pairs(heap, last.o, last.e) :
      IndexOf(listenersFor(heap, last.o, last.e), p)
        < IndexOf(listenersFor(heap, last.o, last.e), <<last.t, last.m>>)

----------------------------------------------------------------------------
(* Claims about dual delivery (specification SpecHook) *)

\* C15: sendEvent on an owner with a sendEvent method of its own invokes
\* that method once, before any listener; then every registered listener is
\* invoked once, whatever the method and the listeners return; sendEvent
\* returns true.  Without such a method the listeners are invoked alike.
C15_HookThenEveryListener ==
  Called("send") =>
    /\ last.res = "true"
    /\ \A p \in Pairs(last.pre, last.o, last.e) : Count(last.inv, p) = 1
    /\ last.hook =>
         /\ last.inv[1] = HookCall
         /\ Count(last.inv, HookCall) = 1
         /\ Len(last.inv) = 1 + Cardinality(Pairs(last.pre, last.o, last.e))
    /\ ~last.hook => Len(last.inv) = Cardinality(Pairs(last.pre, last.o, last.e))

\* the owner's method returned true, two listeners ran after it and the
\* first of them returned true
C15_Witness ==
  /\ Called("send")
  /\ last.hook
  /\ Len(last.inv) = 3
  /\ Len(last.ops) = 3
  /\ last.ops[1][5] = "true"
  /\ last.ops[2][5] = "true"

----------------------------------------------------------------------------
(* Claims about suspendListeners (specification SpecSuspendMany) *)

\* C16: after suspendListeners(owner, [e1..en], target, M, body) has run
\* its body and returned or raised, every named event has the pairs it had
\* before the call, also when (target, M) was registered on some of them
\* only.
C16_SuspendListenersRestoresEachEvent ==
  (Called("suspendMany") /\ last.res # "TypeError") =>
    \A i \in 1..Len(last.e) :
      Pairs(heap, last.o, last.e[i]) = Pairs(last.pre, last.o, last.e[i])

----------------------------------------------------------------------------
(* Further claims about suspendListener (specification SpecSuspend) *)

\* suspendListener was called on a pair that was not registered, and its
\* callback, if it ran, called nothing
SuspendedUnregistered ==
  /\ Called("suspend")
  /\ <<last.t, last.m>> \notin Pairs(last.pre, last.o, last.e)
  /\ \A i \in 1..Len(last.ops) : last.ops[i][1] = "end"

\* the target had a row for the event when suspendListener was called
TargetHadRow ==
  /\ targetSetFor(last.pre, last.o, last.e) # 0
  /\ last.t \in Range(last.pre.acts[targetSetFor(last.pre, last.o, last.e)].targets)

\* C17: suspendListener of a pair that is not registered raises no error of
\* its own, runs the callback once, returns the callback's result and
\* leaves the pairs of every event as they were.
C17_SuspendUnregisteredRunsBody ==
  SuspendedUnregistered =>
    /\ last.res # "TypeError"
    /\ Len(last.ops) = 1
    /\ last.res = last.ops[1][5]
    /\ \A e2 \in Events : Pairs(heap, last.o, e2) = Pairs(last.pre, last.o, e2)

\* C17 when the target has a row without M
C17_WhenTargetHasRow ==
  (SuspendedUnregistered /\ TargetHadRow) =>
    /\ last.res # "TypeError"
    /\ Len(last.ops) = 1
    /\ last.res = last.ops[1][5]
    /\ \A e2 \in Events : Pairs(heap, last.o, e2) = Pairs(last.pre, last.o, e2)

----------------------------------------------------------------------------
(* Claims about the receiver (specification SpecSelfRemove) *)

\* the target with which the methods of row i of the dispatched action set
\* were registered (the registrations came before the dispatch, and rows
\* keep their place in `methods`)
RegisteredTarget(i) ==
  last.pre.acts[targetSetFor(last.pre, last.o, last.e)].targets[i]

\* C18: every invocation of a sendEvent has as receiver the target its
\* method was registered with, the owner standing for a null target, also
\* when listeners remove themselves during the dispatch.
C18_ReceiverIsRegisteredTarget ==
  Called("send") =>
    \A k \in 1..Len(last.inv) :
      Receiver(last.o, last.inv[k][1]) = Receiver(last.o, RegisteredTarget(last.rows[k]))

----------------------------------------------------------------------------
(* Claims about the shape of the action sets *)

\* the action sets that some owner reads for some event
LiveActions(h) ==
  {targetSetFor(h, o, e) : o \in Owners, e \in Events} \ {0}

\* C19 (specification SpecSuspend): in every reachable state each action
\* set has at most one row per target and each row holds a method at most
\* once.
C19_UniqueRowsUniqueMethods ==
  \A a \in LiveActions(heap) :
    /\ NoDuplicates(heap.acts[a].targets)
    /\ \A i \in 1..Len(heap.acts[a].targets) : NoDuplicates(heap.acts[a].methods[i])

\* C20 (specification Spec): between calls the two arrays of an action set
\* have the same length and no row is empty.
C20_ParallelArraysAligned ==
  stack = <<>> =>
    \A a \in LiveActions(heap) :
      /\ Len(heap.acts[a].targets) = Len(heap.acts[a].methods)
      /\ \A i \in 1..Len(heap.acts[a].methods) : heap.acts[a].methods[i] # <<>>

=============================================================================
